---- MODULE Spec2Model ----
(***************************************************************************)
(* CpTrackBot (src/index.js): a Telegram webhook bot that keeps, per chat, *)
(* a list of Codeforces handles in a MongoDB collection and reports how    *)
(* many problems each handle solved today.                                 *)
(*                                                                         *)
(* The model follows the "message" handler of src/index.js:130-200.  Each  *)
(* update is handled by one run of the async handler; a run is cut at its  *)
(* awaits, so the steps of several runs interleave exactly where Node's    *)
(* event loop can interleave them.  A store operation takes effect at the  *)
(* step that ends its await.                                               *)
(*                                                                         *)
(* Texts are sequences of symbols.  The bot's mention token and "/add" are *)
(* single symbols; " " and "\t" are the whitespace symbols; "x" and "y"    *)
(* are ordinary characters.                                                *)
(***************************************************************************)
EXTENDS Integers, Sequences, FiniteSets, TLC

(* ------------------------------ bounds -------------------------------- *)

\* number of updates delivered in one behaviour
MaxMsgs == 2
\* longest message text, in symbols
MaxTextLen == 4
\* store and send failures in one behaviour
MaxFaults == 2
\* longest submission list the judge returns
MaxSubs == 3
\* submission times and the midnight cutoff range over 0..MaxTime
MaxTime == 2

(* ---------------------------- text handling --------------------------- *)

\* let botUsername = "@CpTrackBuddybot"
botUsername == "@CpTrackBuddybot"

\* the same token typed in another letter case
botUsernameLower == "@cptrackbuddybot"

Alphabet == {botUsername, botUsernameLower, "/add", " ", "\t", "x", "y"}

RECURSIVE SeqsUpTo(_, _)
SeqsUpTo(S, n) ==
    IF n = 0 THEN {<<>>}
    ELSE LET shorter == SeqsUpTo(S, n - 1)
         IN  shorter \cup {Append(t, s) : t \in shorter, s \in S}

\* msg.text || ""
Texts == SeqsUpTo(Alphabet, MaxTextLen)

\* letter case folded, as the regular expression's "i" flag does
Lower(sym) == IF sym = botUsername THEN botUsernameLower ELSE sym

\* text.includes(botUsername): an exact, case-sensitive search
Includes(text, tok) == \E k \in 1..Len(text) : text[k] = tok

\* text.replace(new RegExp(botUsername, "gi"), "")
StripMention(text) == SelectSeq(text, LAMBDA s : Lower(s) # Lower(botUsername))

IsSpace(sym) == sym \in {" ", "\t"}

RECURSIVE TrimStart(_)
TrimStart(text) ==
    IF text # <<>> /\ IsSpace(Head(text)) THEN TrimStart(Tail(text)) ELSE text

RECURSIVE TrimEnd(_)
TrimEnd(text) ==
    IF text # <<>> /\ IsSpace(text[Len(text)])
    THEN TrimEnd(SubSeq(text, 1, Len(text) - 1))
    ELSE text

\* String.prototype.trim
Trim(text) == TrimEnd(TrimStart(text))

\* cleanedText.startsWith("/add")
StartsWithAdd(text) == text # <<>> /\ Head(text) = "/add"

\* cleanedText.split(" "): cut at every single " " symbol
RECURSIVE Split(_)
Split(text) ==
    IF \A k \in 1..Len(text) : text[k] # " " THEN <<text>>
    ELSE LET k == CHOOSE j \in 1..Len(text) :
                      text[j] = " " /\ \A m \in 1..(j - 1) : text[m] # " "
         IN  <<SubSeq(text, 1, k - 1)>> \o Split(SubSeq(text, k + 1, Len(text)))

\* cleanedText.split(" ")[1]; <<>> stands for both undefined and ""
HandleArg(cleaned) ==
    LET parts == Split(cleaned)
    IN  IF Len(parts) >= 2 THEN parts[2] ELSE <<>>

\* What the synchronous head of the handler reads off a text.
Decode(text) ==
    LET cleaned == Trim(StripMention(text))
    IN  [ mentioned |-> Includes(text, botUsername),
          isAdd     |-> StartsWithAdd(cleaned),
          handle    |-> IF StartsWithAdd(cleaned) THEN HandleArg(cleaned) ELSE <<>> ]

Inputs == {Decode(t) : t \in Texts}

(* ------------------------------- chats -------------------------------- *)

\* msg.chat: id, type and title; a private chat carries no title
Chats ==
    { [id |-> 1, type |-> "group",   title |-> "T1"],
      [id |-> 1, type |-> "group",   title |-> "T2"],
      [id |-> 2, type |-> "private", title |-> "undefined"] }

ChatIds == {c.id : c \in Chats}

(* ------------------------------- judge -------------------------------- *)

Problems == {<<1, "A">>, <<1, "B">>, <<2, "A">>}

Submissions ==
    [ verdict : {"OK", "WRONG_ANSWER"},
      creationTimeSeconds : 0..MaxTime,
      problem : Problems ]

\* res.data of the user.status call
Responses ==
    [ status : {"OK", "FAILED"}, result : SeqsUpTo(Submissions, MaxSubs) ]

\* `${sub.problem.contestId}-${sub.problem.index}`
ProblemId(sub) == <<sub.problem[1], "-", sub.problem[2]>>

\* every accepted submission of today counted, repeated problems included
getTodaySolvedCountNoSet(data, startOfToday) ==
    IF data.status # "OK" THEN [ok |-> FALSE, n |-> 0]
    ELSE LET submissions == data.result
         IN  [ok |-> TRUE,
              n  |-> Cardinality({ j \in 1..Len(submissions) :
                                     /\ submissions[j].verdict = "OK"
                                     /\ submissions[j].creationTimeSeconds >= startOfToday })]

\* getTodaySolvedCount: the count, or a thrown error on a non-OK status
getTodaySolvedCount(data, startOfToday) ==
    IF data.status # "OK" THEN [ok |-> FALSE, n |-> 0]
    ELSE LET submissions == data.result
             solved == { ProblemId(submissions[k]) :
                           k \in { j \in 1..Len(submissions) :
                                     /\ submissions[j].verdict = "OK"
                                     /\ submissions[j].creationTimeSeconds >= startOfToday } }
         IN  [ok |-> TRUE, n |-> Cardinality(solved)]

\* every outcome one judge call can have
JudgeOutcomes ==
    {getTodaySolvedCount(d, t) : d \in Responses, t \in 0..MaxTime}

(* ------------------------------- state -------------------------------- *)

VARIABLES
    store,    \* the "groups" collection, in insertion order
    h,        \* h[i]: the run of the message handler for the i-th update
    faults,   \* store and send failures so far
    store0,   \* the collection as the process found it; never written
    call      \* a function of the program applied on its own: input and result

vars == <<store, h, faults, store0, call>>

Slots == 1..MaxMsgs

NoChat == [id |-> 0, type |-> "none", title |-> "undefined"]

\* a handler run that has not started
Idle ==
    [ pc        |-> "idle",
      chat      |-> NoChat,     \* msg.chat
      mentioned |-> FALSE,      \* text.includes(botUsername)
      isAdd     |-> FALSE,      \* cleanedText.startsWith("/add")
      handle    |-> <<>>,       \* const handle
      found     |-> FALSE,      \* existing / grpdata is not null
      users     |-> <<>>,       \* existing.users / grpdata.users as read
      idx       |-> 0,          \* position of the for..of loop
      solve     |-> 0,          \* const solve
      out       |-> <<>>,       \* messages this run delivered, in order
      jres      |-> <<>>,       \* outcomes of this run's judge calls, in order
      reads     |-> 0,          \* store reads this run performed
      writes    |-> 0,          \* store writes this run performed
      sfail     |-> FALSE,      \* a store operation of this run failed
      mfail     |-> FALSE,      \* a sendMessage of this run failed
      http      |-> 0 ]         \* status the webhook route answered; 0: none yet

\* The collection outlives the process.  When the handler is registered it
\* is empty, or holds what earlier /add messages, handled one after another,
\* left in it.
InitStores ==
    { <<>>,
      <<[groupId |-> 1, groupName |-> "T1", users |-> << <<"x">> >>]>>,
      <<[groupId |-> 1, groupName |-> "T1", users |-> << <<"x">>, <<"y">> >>]>>,
      <<[groupId |-> 2, groupName |-> "undefined", users |-> << <<"x">> >>]>> }

\* no function is applied on its own
NoCall == [pc |-> "none"]

Init ==
    /\ store \in InitStores
    /\ h = [i \in Slots |-> Idle]
    /\ faults = 0
    /\ store0 = store
    /\ call = NoCall

(* ----------------------------- group store ---------------------------- *)

\* the filter on groupId dropped: every document matches
MatchingAny(s, gid) == 1..Len(s)

\* the documents the filter { groupId: chatId } selects
Matching(s, gid) == {k \in 1..Len(s) : s[k].groupId = gid}

First(S) == CHOOSE k \in S : \A m \in S : k <= m

\* groupsCollection.findOne({ groupId: chatId })
FindOne(s, gid) ==
    IF Matching(s, gid) = {} THEN [found |-> FALSE, users |-> <<>>]
    ELSE [found |-> TRUE, users |-> s[First(Matching(s, gid))].users]

\* groupsCollection.insertOne(doc)
InsertOne(s, doc) == Append(s, doc)

\* updateOne with { $push: { users: { handle } } } in place of the $set
UpdateOnePush(s, gid, users) ==
    IF Matching(s, gid) = {} THEN s
    ELSE [s EXCEPT ![First(Matching(s, gid))].users = Append(@, users[Len(users)])]

\* groupsCollection.updateOne({ groupId }, { $set: { users } })
UpdateOne(s, gid, users) ==
    IF Matching(s, gid) = {} THEN s
    ELSE [s EXCEPT ![First(Matching(s, gid))].users = users]

(* ------------------------- handler: decisions ------------------------- *)

\* the gate left out
PassesGateAlways(chat, mentioned) == TRUE

\* line 135: the message is handled (not ignored)
PassesGate(chat, mentioned) == ~(chat.type # "private" /\ ~mentioned)

\* the test for a missing argument left out
MissingHandleNever(handle) == FALSE

\* line 142: !handle
MissingHandle(handle) == handle = <<>>

\* the membership test left out
AlreadyTrackedNever(users, handle) == FALSE

\* line 157: existing.users.find(u => u.handle === handle)
AlreadyTracked(users, handle) == \E k \in 1..Len(users) : users[k] = handle

\* unshift in place of push
PushFront(users, handle) == <<handle>> \o users

\* line 162: existing.users.push({ handle })
Push(users, handle) == Append(users, handle)

\* the guard of the loop left out
HasUsersAlways(found, users) == TRUE

\* line 181: grpdata && grpdata.users && grpdata.users.length > 0
HasUsers(found, users) == found /\ Len(users) > 0

Msg(r, kind) == [to |-> r.chat.id, kind |-> kind, handle |-> <<>>, n |-> 0]

MsgH(r, kind, handle) == [to |-> r.chat.id, kind |-> kind, handle |-> handle, n |-> 0]

MsgN(r, handle, n) == [to |-> r.chat.id, kind |-> "solved", handle |-> handle, n |-> n]

\* bot.sendMessage resolved: the message is delivered
Delivered(r, m, pc) == [r EXCEPT !.out = Append(@, m), !.pc = pc]

\* bot.sendMessage rejected
Undelivered(r, pc) == [r EXCEPT !.mfail = TRUE, !.pc = pc]

CanFail == faults < MaxFaults

Step(i, r) == h' = [h EXCEPT ![i] = r] /\ UNCHANGED <<store0, call>>

\* the loop stops one handle early
NextHandleSkipLast(r) ==
    IF r.idx + 1 < Len(r.users)
    THEN [r EXCEPT !.idx = @ + 1, !.pc = "repJudge"]
    ELSE [r EXCEPT !.pc = "done"]

\* the loop of line 182 moves on to the next handle, or the handler ends
NextHandle(r) ==
    IF r.idx < Len(r.users)
    THEN [r EXCEPT !.idx = @ + 1, !.pc = "repJudge"]
    ELSE [r EXCEPT !.pc = "done"]

(* -------------------------- handler: the steps ------------------------ *)

\* line 130: the listener is an async function; whatever it raises rejects
\* the promise it returned and is not thrown into bot.processUpdate
ListenerThrows == FALSE

\* lines 58-66: 200 once bot.processUpdate has returned, 500 when it threw
WebhookStatus(thrown) == IF thrown THEN 500 ELSE 200

\* lines 58-61, 130-147, 180: the webhook route hands the update to the
\* handler, whose synchronous head runs up to its first await (a findOne or
\* a sendMessage in flight) or its return; the route then answers
Receive(i) ==
    /\ h[i].pc = "idle"
    /\ \A j \in Slots : j < i => h[j].pc # "idle"
    /\ \E chat \in Chats, in \in Inputs :
         LET r == [h[i] EXCEPT !.chat = chat, !.mentioned = in.mentioned,
                               !.http = WebhookStatus(ListenerThrows)]
         IN  IF ~PassesGate(chat, in.mentioned)
             THEN Step(i, [r EXCEPT !.pc = "done"])
             ELSE Step(i, [r EXCEPT !.isAdd = in.isAdd, !.handle = in.handle, !.pc =
                     IF in.isAdd
                     THEN IF MissingHandle(in.handle) THEN "sendUsage" ELSE "addFind"
                     ELSE "repFind"])
    /\ UNCHANGED <<store, faults>>

\* line 143: return bot.sendMessage(usage); a rejection leaves the handler
SendUsage(i) ==
    /\ h[i].pc = "sendUsage"
    /\ \/ Step(i, Delivered(h[i], Msg(h[i], "usage"), "done")) /\ UNCHANGED faults
       \/ CanFail /\ faults' = faults + 1 /\ Step(i, Undelivered(h[i], "rejected"))
    /\ UNCHANGED store

\* line 147: await findOne returns; lines 148-166 up to the next await
AddFind(i) ==
    /\ h[i].pc = "addFind"
    /\ \/ LET existing == FindOne(store, h[i].chat.id)
              r == [h[i] EXCEPT !.reads = @ + 1, !.found = existing.found,
                                !.users = existing.users]
          IN  /\ Step(i, [r EXCEPT !.pc =
                     IF ~existing.found THEN "addInsert"
                     ELSE IF AlreadyTracked(existing.users, h[i].handle)
                          THEN "sendAlready"
                          ELSE "addUpdate"])
              /\ UNCHANGED faults
       \/ /\ CanFail
          /\ faults' = faults + 1
          /\ Step(i, [h[i] EXCEPT !.reads = @ + 1, !.sfail = TRUE, !.pc = "sendAddFailed"])
    /\ UNCHANGED store

\* the new document created with an empty list
NewGroupEmpty(r) ==
    [groupId |-> r.chat.id, groupName |-> r.chat.title, users |-> <<>>]

\* lines 149-153: the document of a new group
NewGroup(r) ==
    [groupId |-> r.chat.id, groupName |-> r.chat.title, users |-> <<r.handle>>]

\* lines 149-154: await insertOne returns
AddInsert(i) ==
    /\ h[i].pc = "addInsert"
    /\ \/ /\ store' = InsertOne(store, NewGroup(h[i]))
          /\ Step(i, [h[i] EXCEPT !.writes = @ + 1, !.pc = "sendCreated"])
          /\ UNCHANGED faults
       \/ /\ CanFail
          /\ faults' = faults + 1
          /\ Step(i, [h[i] EXCEPT !.sfail = TRUE, !.pc = "sendAddFailed"])
          /\ UNCHANGED store

\* the update also refreshing the name: { $set: { users, groupName } }
AddUpdateRefresh(i) ==
    /\ h[i].pc = "addUpdate"
    /\ \/ /\ store' = [k \in 1..Len(store) |->
                        IF Matching(store, h[i].chat.id) # {}
                           /\ k = First(Matching(store, h[i].chat.id))
                        THEN [store[k] EXCEPT !.users = Push(h[i].users, h[i].handle),
                                              !.groupName = h[i].chat.title]
                        ELSE store[k]]
          /\ Step(i, [h[i] EXCEPT !.writes = @ + 1, !.pc = "sendAdded"])
          /\ UNCHANGED faults
       \/ /\ CanFail
          /\ faults' = faults + 1
          /\ Step(i, [h[i] EXCEPT !.sfail = TRUE, !.pc = "sendAddFailed"])
          /\ UNCHANGED store

\* lines 162-166: await updateOne returns, with the list read at line 147
\* plus the pushed handle
AddUpdate(i) ==
    /\ h[i].pc = "addUpdate"
    /\ \/ /\ store' = UpdateOne(store, h[i].chat.id, Push(h[i].users, h[i].handle))
          /\ Step(i, [h[i] EXCEPT !.writes = @ + 1, !.pc = "sendAdded"])
          /\ UNCHANGED faults
       \/ /\ CanFail
          /\ faults' = faults + 1
          /\ Step(i, [h[i] EXCEPT !.sfail = TRUE, !.pc = "sendAddFailed"])
          /\ UNCHANGED store

\* line 155: await bot.sendMessage(created); a rejection goes to the catch
SendCreated(i) ==
    /\ h[i].pc = "sendCreated"
    /\ \/ Step(i, Delivered(h[i], MsgH(h[i], "created", h[i].handle), "done"))
          /\ UNCHANGED faults
       \/ CanFail /\ faults' = faults + 1 /\ Step(i, Undelivered(h[i], "sendAddFailed"))
    /\ UNCHANGED store

\* line 159: return bot.sendMessage(already), not awaited inside the try:
\* a rejection leaves the handler
SendAlready(i) ==
    /\ h[i].pc = "sendAlready"
    /\ \/ Step(i, Delivered(h[i], MsgH(h[i], "already", h[i].handle), "done"))
          /\ UNCHANGED faults
       \/ CanFail /\ faults' = faults + 1 /\ Step(i, Undelivered(h[i], "rejected"))
    /\ UNCHANGED store

\* line 168: await bot.sendMessage(added); a rejection goes to the catch
SendAdded(i) ==
    /\ h[i].pc = "sendAdded"
    /\ \/ Step(i, Delivered(h[i], MsgH(h[i], "added", h[i].handle), "done"))
          /\ UNCHANGED faults
       \/ CanFail /\ faults' = faults + 1 /\ Step(i, Undelivered(h[i], "sendAddFailed"))
    /\ UNCHANGED store

\* a catch that only logs
SendAddFailedSilent(i) ==
    /\ h[i].pc = "sendAddFailed"
    /\ Step(i, [h[i] EXCEPT !.pc = "done"])
    /\ UNCHANGED <<store, faults>>

\* lines 170-175: the catch of the /add path
SendAddFailed(i) ==
    /\ h[i].pc = "sendAddFailed"
    /\ \/ Step(i, Delivered(h[i], Msg(h[i], "addFailed"), "done")) /\ UNCHANGED faults
       \/ CanFail /\ faults' = faults + 1 /\ Step(i, Undelivered(h[i], "rejected"))
    /\ UNCHANGED store

\* a failed findOne taken for "no record"
RepFindSwallow(i) ==
    /\ h[i].pc = "repFind"
    /\ \/ LET grpdata == FindOne(store, h[i].chat.id)
              r == [h[i] EXCEPT !.reads = @ + 1, !.found = grpdata.found,
                                !.users = grpdata.users]
          IN  /\ Step(i, IF HasUsers(grpdata.found, grpdata.users)
                         THEN NextHandle(r)
                         ELSE [r EXCEPT !.pc = "sendNoUsers"])
              /\ UNCHANGED faults
       \/ /\ CanFail
          /\ faults' = faults + 1
          /\ Step(i, [h[i] EXCEPT !.reads = @ + 1, !.sfail = TRUE, !.pc = "sendNoUsers"])
    /\ UNCHANGED store

\* the lookup made an upsert: a missing record is created empty
RepFindUpsert(i) ==
    /\ h[i].pc = "repFind"
    /\ \/ LET grpdata == FindOne(store, h[i].chat.id)
              r == [h[i] EXCEPT !.reads = @ + 1, !.found = grpdata.found,
                                !.users = grpdata.users]
          IN  /\ Step(i, IF HasUsers(grpdata.found, grpdata.users)
                         THEN NextHandle(r)
                         ELSE [r EXCEPT !.pc = "sendNoUsers"])
              /\ store' = IF grpdata.found THEN store
                          ELSE InsertOne(store, NewGroupEmpty(h[i]))
              /\ UNCHANGED faults
       \/ /\ CanFail
          /\ faults' = faults + 1
          /\ Step(i, [h[i] EXCEPT !.reads = @ + 1, !.sfail = TRUE, !.pc = "sendRepFailed"])
          /\ UNCHANGED store

\* lines 180-184, 192: await findOne returns; the loop starts or the
\* "no users" reply is sent
RepFind(i) ==
    /\ h[i].pc = "repFind"
    /\ \/ LET grpdata == FindOne(store, h[i].chat.id)
              r == [h[i] EXCEPT !.reads = @ + 1, !.found = grpdata.found,
                                !.users = grpdata.users]
          IN  /\ Step(i, IF HasUsers(grpdata.found, grpdata.users)
                         THEN NextHandle(r)
                         ELSE [r EXCEPT !.pc = "sendNoUsers"])
              /\ UNCHANGED faults
       \/ /\ CanFail
          /\ faults' = faults + 1
          /\ Step(i, [h[i] EXCEPT !.reads = @ + 1, !.sfail = TRUE, !.pc = "sendRepFailed"])
    /\ UNCHANGED store

\* line 184: await getTodaySolvedCount(u.handle) returns or throws
RepJudge(i) ==
    /\ h[i].pc = "repJudge"
    /\ \E res \in JudgeOutcomes :
         Step(i, [h[i] EXCEPT !.jres = Append(@, res), !.solve = res.n,
                              !.pc = IF res.ok THEN "sendSolved" ELSE "sendCouldNot"])
    /\ UNCHANGED <<store, faults>>

\* line 185: await bot.sendMessage(solved); a rejection goes to the inner catch
SendSolved(i) ==
    /\ h[i].pc = "sendSolved"
    /\ \/ Step(i, NextHandle(Delivered(h[i],
                      MsgN(h[i], h[i].users[h[i].idx], h[i].solve), "sendSolved")))
          /\ UNCHANGED faults
       \/ CanFail /\ faults' = faults + 1 /\ Step(i, Undelivered(h[i], "sendCouldNot"))
    /\ UNCHANGED store

\* lines 186-189: the inner catch; a rejection of its sendMessage goes to the
\* outer catch and ends the loop
SendCouldNot(i) ==
    /\ h[i].pc = "sendCouldNot"
    /\ \/ Step(i, NextHandle(Delivered(h[i],
                      MsgH(h[i], "couldNot", h[i].users[h[i].idx]), "sendCouldNot")))
          /\ UNCHANGED faults
       \/ CanFail /\ faults' = faults + 1 /\ Step(i, Undelivered(h[i], "sendRepFailed"))
    /\ UNCHANGED store

\* the else branch of line 191 left out: nothing is said
SendNoUsersSkipped(i) ==
    /\ h[i].pc = "sendNoUsers"
    /\ Step(i, [h[i] EXCEPT !.pc = "done"])
    /\ UNCHANGED <<store, faults>>

\* line 192: await bot.sendMessage(no users); a rejection goes to the catch
SendNoUsers(i) ==
    /\ h[i].pc = "sendNoUsers"
    /\ \/ Step(i, Delivered(h[i], Msg(h[i], "noUsers"), "done")) /\ UNCHANGED faults
       \/ CanFail /\ faults' = faults + 1 /\ Step(i, Undelivered(h[i], "sendRepFailed"))
    /\ UNCHANGED store

\* lines 194-197: the catch of the report path
SendRepFailed(i) ==
    /\ h[i].pc = "sendRepFailed"
    /\ \/ Step(i, Delivered(h[i], Msg(h[i], "repFailed"), "done")) /\ UNCHANGED faults
       \/ CanFail /\ faults' = faults + 1 /\ Step(i, Undelivered(h[i], "rejected"))
    /\ UNCHANGED store

(* --------------------------- specifications --------------------------- *)

\* every step of a started handler run
Run(i) ==
    \/ SendUsage(i)
    \/ AddFind(i)
    \/ AddInsert(i)
    \/ AddUpdate(i)
    \/ SendCreated(i)
    \/ SendAlready(i)
    \/ SendAdded(i)
    \/ SendAddFailed(i)
    \/ RepFind(i)
    \/ RepJudge(i)
    \/ SendSolved(i)
    \/ SendCouldNot(i)
    \/ SendNoUsers(i)
    \/ SendRepFailed(i)

Next == \E i \in Slots : Receive(i) \/ Run(i)

\* updates are handled concurrently: a new run may start while others wait
Spec == Init /\ [][Next]_vars

Finished(i) == h[i].pc \in {"done", "rejected"}

Quiet == \A i \in Slots : h[i].pc = "idle" \/ Finished(i)

\* updates handled one after another: a run starts only when none is waiting
SeqNext == \E i \in Slots : (Quiet /\ Receive(i)) \/ Run(i)

SeqSpec == Init /\ [][SeqNext]_vars

\* every store, judge and send call in flight eventually returns, so a run
\* that waits at an await is eventually resumed
FairSpec == Spec /\ \A i \in Slots : WF_vars(Run(i))

\* getTodaySolvedCount on its own: any response of the judge, any midnight
JudgeInit ==
    /\ store = <<>>
    /\ h = [i \in Slots |-> Idle]
    /\ faults = 0
    /\ store0 = <<>>
    /\ call \in [pc : {"judge"}, data : Responses, startOfToday : 0..MaxTime,
                 res : {[ok |-> FALSE, n |-> 0]}]

\* lines 73-93: one call of getTodaySolvedCount returns or throws
JudgeCall ==
    /\ call.pc = "judge"
    /\ call' = [call EXCEPT !.res = getTodaySolvedCount(call.data, call.startOfToday),
                            !.pc = "returned"]
    /\ UNCHANGED <<store, h, faults, store0>>

JudgeSpec == JudgeInit /\ [][JudgeCall]_vars

\* the synchronous head of the handler on its own: any text
ParseInit ==
    /\ store = <<>>
    /\ h = [i \in Slots |-> Idle]
    /\ faults = 0
    /\ store0 = <<>>
    /\ call \in [pc : {"parse"}, text : Texts,
                 res : {[mentioned |-> FALSE, isAdd |-> FALSE, handle |-> <<>>]}]

\* lines 132-141: the text is cleaned and the handle argument is read off
ParseCall ==
    /\ call.pc = "parse"
    /\ call' = [call EXCEPT !.res = Decode(call.text), !.pc = "returned"]
    /\ UNCHANGED <<store, h, faults, store0>>

ParseSpec == ParseInit /\ [][ParseCall]_vars

(* ----------------------------- properties ----------------------------- *)

Range(seq) == {seq[k] : k \in 1..Len(seq)}

NoDup(seq) == \A a, b \in 1..Len(seq) : a # b => seq[a] # seq[b]

\* how many entries of seq equal e
Count(seq, e) == Cardinality({k \in 1..Len(seq) : seq[k] = e})

\* the run met no store failure and no send failure
Clean(r) == ~r.sfail /\ ~r.mfail

\* the run handles "/add <handle>"
IsAddRun(r) == r.pc # "idle" /\ r.isAdd /\ r.handle # <<>>

\* the run takes the report path (it passed the gate and is no /add)
IsReportRun(r) ==
    /\ r.pc # "idle"
    /\ ~r.isAdd
    /\ r.chat.type = "private" \/ r.mentioned

\* C1: in every reachable state the store holds at most one group record
\* per groupId, also when /add messages of one chat are handled concurrently.
C1_OneRecordPerGroup ==
    \A g \in ChatIds : Cardinality(Matching(store, g)) <= 1

\* C2: handle entries are append-only: a handle present in a record's users
\* list is present in that record's list in every later state.
C2_AppendOnly ==
    [][\A k \in 1..Len(store) :
          /\ k <= Len(store')
          /\ Range(store[k].users) \subseteq Range(store'[k].users)]_vars

\* C3: in every reachable state no record's users list holds the same
\* handle twice, also under concurrent /add handling.
C3_NoDuplicateHandles ==
    \A k \in 1..Len(store) : NoDup(store[k].users)

\* two runs of one chat appended the same handle to an existing record
\* concurrently: both read the list before either wrote, both were confirmed
C3_Witness ==
    \E i, j \in Slots :
        /\ i # j
        /\ h[i].pc = "done" /\ h[j].pc = "done"
        /\ IsAddRun(h[i]) /\ IsAddRun(h[j])
        /\ h[i].chat.id = h[j].chat.id /\ h[i].handle = h[j].handle
        /\ h[i].found /\ h[j].found /\ h[i].users = h[j].users
        /\ h[i].out = <<MsgH(h[i], "added", h[i].handle)>>
        /\ h[j].out = <<MsgH(h[j], "added", h[j].handle)>>
        /\ h[i].handle \in Range(FindOne(store, h[i].chat.id).users)

\* all users lists stored for a chat, one after another
RECURSIVE UsersOf(_, _)
UsersOf(s, gid) ==
    IF s = <<>> THEN <<>>
    ELSE (IF Head(s).groupId = gid THEN Head(s).users ELSE <<>>) \o UsersOf(Tail(s), gid)

\* the run delivered a creation or addition confirmation
Confirmed(r) ==
    \E k \in 1..Len(r.out) : r.out[k].kind \in {"created", "added"}

\* C4: when all handlers have finished, every handle whose /add was
\* confirmed appears exactly once in what is stored for its group.
C4_ConfirmedExactlyOnce ==
    Quiet =>
        \A i \in Slots :
            (IsAddRun(h[i]) /\ Confirmed(h[i]))
                => Count(UsersOf(store, h[i].chat.id), h[i].handle) = 1

\* C5: a message in a non-private chat whose text lacks the mention token
\* sends nothing, reads and writes no record and calls no judge.
C5_UnmentionedIgnored ==
    \A i \in Slots :
        (h[i].pc # "idle" /\ h[i].chat.type # "private" /\ ~h[i].mentioned)
            => /\ h[i].pc = "done"
               /\ h[i].out = <<>>
               /\ h[i].reads = 0 /\ h[i].writes = 0
               /\ h[i].jres = <<>>

\* an unmentioned group message was handled while the store holds a record
\* of that group
C5_Witness ==
    \E i \in Slots :
        /\ h[i].pc = "done" /\ h[i].chat.type = "group" /\ ~h[i].mentioned
        /\ Matching(store, h[i].chat.id) # {}

\* no later update has been received
Latest(i) == \A j \in Slots : j > i => h[j].pc = "idle"

\* C6: /add h, handled with no other handler running, for a chat that has
\* no record leaves exactly one record of that chat, with users = <<h>>, and
\* sends exactly one creation confirmation to that chat.
C6_CreateOnFirstAdd ==
    \A i \in Slots :
        (Latest(i) /\ Finished(i) /\ IsAddRun(h[i]) /\ Clean(h[i])
           /\ h[i].reads = 1 /\ ~h[i].found)
            => /\ h[i].pc = "done"
               /\ Cardinality(Matching(store, h[i].chat.id)) = 1
               /\ UsersOf(store, h[i].chat.id) = <<h[i].handle>>
               /\ h[i].out = <<MsgH(h[i], "created", h[i].handle)>>

\* a first /add of a group chat has been handled to its end
C6_Witness ==
    \E i \in Slots :
        /\ Latest(i) /\ h[i].pc = "done" /\ IsAddRun(h[i]) /\ Clean(h[i])
        /\ h[i].reads = 1 /\ ~h[i].found
        /\ h[i].chat.type = "group"

\* the run read a record that already lists its handle
AlreadyCase(r) ==
    IsAddRun(r) /\ ~r.sfail /\ r.reads = 1 /\ r.found /\ r.handle \in Range(r.users)

\* C7: /add h for a chat whose record already lists h sends exactly one
\* "already tracked" message, and no step of that run changes the store.
C7_AlreadyTrackedNoChange ==
    /\ [](\A i \in Slots :
            (Finished(i) /\ AlreadyCase(h[i]) /\ ~h[i].mfail)
                => /\ h[i].pc = "done"
                   /\ h[i].out = <<MsgH(h[i], "already", h[i].handle)>>
                   /\ h[i].writes = 0)
    /\ [][\A i \in Slots :
            (h'[i] # h[i] /\ AlreadyCase(h'[i])) => store' = store]_vars

\* a repeated /add has been handled to its end
C7_Witness ==
    \E i \in Slots :
        /\ h[i].pc = "done" /\ AlreadyCase(h[i]) /\ ~h[i].mfail
        /\ Len(h[i].out) = 1

\* handles of the /add runs among the first n updates that are for chat gid
\* and whose store operations all succeeded, in order of arrival
RECURSIVE Adds(_, _)
Adds(gid, n) ==
    IF n = 0 THEN <<>>
    ELSE Adds(gid, n - 1) \o
         (IF IsAddRun(h[n]) /\ h[n].chat.id = gid /\ ~h[n].sfail
          THEN <<h[n].handle>> ELSE <<>>)

\* seq without its repeated entries: first occurrences, in order
RECURSIVE Dedup(_)
Dedup(seq) ==
    IF seq = <<>> THEN <<>>
    ELSE LET d == Dedup(SubSeq(seq, 1, Len(seq) - 1))
             e == seq[Len(seq)]
         IN  IF e \in Range(d) THEN d ELSE Append(d, e)

\* the distinct handles of chat gid in order of first /add, after n updates
Tracked(gid, n) == Dedup(UsersOf(store0, gid) \o Adds(gid, n))

\* C8: when /add commands are handled one after another, the stored users
\* list of a chat is the distinct handles in order of first /add, and each
\* /add of a handle not yet tracked sends exactly one confirmation.
C8_SequentialAdds ==
    Quiet =>
      /\ \A g \in ChatIds :
            IF Tracked(g, MaxMsgs) = <<>>
            THEN Matching(store, g) = {}
            ELSE /\ Cardinality(Matching(store, g)) = 1
                 /\ FindOne(store, g).users = Tracked(g, MaxMsgs)
      /\ \A i \in Slots :
            (IsAddRun(h[i]) /\ Clean(h[i])
               /\ h[i].handle \notin Range(Tracked(h[i].chat.id, i - 1)))
                => /\ h[i].pc = "done"
                   /\ Len(h[i].out) = 1
                   /\ h[i].out[1].kind \in {"created", "added"}
                   /\ h[i].out[1].handle = h[i].handle
                   /\ h[i].out[1].to = h[i].chat.id

\* two /add commands with different new handles were handled in turn on a
\* chat that already tracked a handle
C8_Witness ==
    /\ Quiet
    /\ \E i, j \in Slots :
         /\ i < j
         /\ IsAddRun(h[i]) /\ IsAddRun(h[j]) /\ Clean(h[i]) /\ Clean(h[j])
         /\ h[i].chat.id = h[j].chat.id
         /\ h[i].handle # h[j].handle
         /\ UsersOf(store0, h[i].chat.id) # <<>>
         /\ FindOne(store, h[i].chat.id).users
              = UsersOf(store0, h[i].chat.id) \o <<h[i].handle, h[j].handle>>

\* the message the report loop owes for the k-th handle of the run
Owed(r, k) ==
    IF r.jres[k].ok THEN MsgN(r, r.users[k], r.jres[k].n)
    ELSE MsgH(r, "couldNot", r.users[k])

\* C9: a report on a record with n > 0 handles sends exactly n messages, one
\* per handle in list order: "solved N" where the judge call succeeded, the
\* per-handle failure message where it failed; a failed call ends nothing.
C9_ReportPerHandle ==
    \A i \in Slots :
        (Finished(i) /\ IsReportRun(h[i]) /\ Clean(h[i])
           /\ h[i].reads = 1 /\ h[i].found /\ Len(h[i].users) > 0)
            => /\ h[i].pc = "done"
               /\ Len(h[i].jres) = Len(h[i].users)
               /\ Len(h[i].out) = Len(h[i].users)
               /\ \A k \in 1..Len(h[i].users) : h[i].out[k] = Owed(h[i], k)

\* a report over two handles ended after the first judge call failed and
\* the second succeeded
C9_Witness ==
    \E i \in Slots :
        /\ h[i].pc = "done" /\ IsReportRun(h[i]) /\ Clean(h[i])
        /\ Len(h[i].users) = 2 /\ Len(h[i].jres) = 2
        /\ ~h[i].jres[1].ok /\ h[i].jres[2].ok /\ h[i].jres[2].n > 0

AcceptedToday(result, cutoff) ==
    { <<result[k].problem[1], result[k].problem[2]>> :
        k \in { j \in 1..Len(result) :
                  result[j].verdict = "OK" /\ result[j].creationTimeSeconds >= cutoff } }

\* C11: on a status-OK response getTodaySolvedCount returns the number of
\* distinct (contestId, index) pairs among the accepted submissions created
\* at or after the midnight cutoff; on any other status it throws.
C11_TodaySolvedCount ==
    call.pc = "returned" =>
        IF call.data.status = "OK"
        THEN /\ call.res.ok
             /\ call.res.n = Cardinality(AcceptedToday(call.data.result, call.startOfToday))
        ELSE ~call.res.ok

\* two accepted submissions of one problem today and an accepted submission
\* of another problem before the cutoff: the call returned 1
C11_Witness ==
    /\ call.pc = "returned"
    /\ call.data.status = "OK"
    /\ Len(call.data.result) = 3
    /\ \A k \in 1..3 : call.data.result[k].verdict = "OK"
    /\ call.data.result[1].problem = call.data.result[2].problem
    /\ call.data.result[3].problem # call.data.result[1].problem
    /\ call.data.result[1].creationTimeSeconds >= call.startOfToday
    /\ call.data.result[2].creationTimeSeconds >= call.startOfToday
    /\ call.data.result[3].creationTimeSeconds < call.startOfToday
    /\ call.res = [ok |-> TRUE, n |-> 1]

\* C12: the webhook answers 200 when the update is processed without an
\* exception and 500 whenever processing raises one, also inside the message
\* handler; no exception escapes the handler unanswered.
C12_WebhookStatus ==
    \A i \in Slots :
        /\ (h[i].pc = "done" /\ Clean(h[i])) => h[i].http = 200
        /\ h[i].pc = "rejected" => h[i].http = 500

\* C13: when a store operation fails while /add is handled, the run sends
\* exactly one generic failure message, confirms nothing, and ends normally.
C13_AddStoreFailure ==
    \A i \in Slots :
        (IsAddRun(h[i]) /\ h[i].sfail)
            => /\ ~Confirmed(h[i])
               /\ h[i].writes = 0
               /\ (Finished(i) /\ ~h[i].mfail)
                     => /\ h[i].pc = "done"
                        /\ h[i].out = <<Msg(h[i], "addFailed")>>

\* an /add whose store operation failed has been handled to its end
C13_Witness ==
    \E i \in Slots :
        /\ h[i].pc = "done" /\ IsAddRun(h[i]) /\ h[i].sfail /\ ~h[i].mfail
        /\ Len(h[i].out) = 1

\* C14: when the findOne of the report path fails, the report is given up:
\* exactly one generic error reply, no per-handle message, no judge call.
C14_ReportStoreFailure ==
    \A i \in Slots :
        (IsReportRun(h[i]) /\ h[i].sfail)
            => /\ h[i].jres = <<>>
               /\ \A k \in 1..Len(h[i].out) : h[i].out[k].kind = "repFailed"
               /\ (Finished(i) /\ ~h[i].mfail)
                     => /\ h[i].pc = "done"
                        /\ h[i].out = <<Msg(h[i], "repFailed")>>

\* a report whose findOne failed has been handled to its end, on a chat
\* that tracks handles
C14_Witness ==
    \E i \in Slots :
        /\ h[i].pc = "done" /\ IsReportRun(h[i]) /\ h[i].sfail /\ ~h[i].mfail
        /\ Len(h[i].out) = 1
        /\ FindOne(store, h[i].chat.id).users # <<>>

\* the run handles "/add" without a handle argument
IsUsageRun(r) == r.pc # "idle" /\ r.isAdd /\ r.handle = <<>>

\* C15: /add without a handle argument sends exactly one usage reply and
\* neither reads nor writes the store.
C15_UsageError ==
    \A i \in Slots :
        IsUsageRun(h[i])
            => /\ h[i].reads = 0 /\ h[i].writes = 0
               /\ h[i].jres = <<>>
               /\ (Finished(i) /\ ~h[i].mfail)
                     => /\ h[i].pc = "done"
                        /\ h[i].out = <<Msg(h[i], "usage")>>

\* an /add without argument has been answered in a group chat
C15_Witness ==
    \E i \in Slots :
        /\ h[i].pc = "done" /\ IsUsageRun(h[i]) /\ ~h[i].mfail
        /\ h[i].chat.type = "group"
        /\ Len(h[i].out) = 1

\* the whitespace-separated tokens of a text: the maximal runs of symbols
\* that are not whitespace
RECURSIVE Tokens(_)
Tokens(text) ==
    LET t == TrimStart(text)
    IN  IF t = <<>> THEN <<>>
        ELSE LET n == IF \E k \in 1..Len(t) : IsSpace(t[k])
                      THEN (CHOOSE k \in 1..Len(t) :
                               IsSpace(t[k]) /\ \A m \in 1..(k - 1) : ~IsSpace(t[m])) - 1
                      ELSE Len(t)
             IN  <<SubSeq(t, 1, n)>> \o Tokens(SubSeq(t, n + 1, Len(t)))

\* the second whitespace-separated token, <<>> when there is none
SecondToken(text) ==
    IF Len(Tokens(text)) >= 2 THEN Tokens(text)[2] ELSE <<>>

\* C16: for a cleaned text that starts with /add, the handle argument used
\* is the second whitespace-separated token of the cleaned text, and the
\* argument is missing only when there is no second token.
C16_SecondToken ==
    (call.pc = "returned" /\ call.res.isAdd)
        => call.res.handle = SecondToken(Trim(StripMention(call.text)))

\* the records of one chat, in the order of the collection
RecordsOf(s, gid) == SelectSeq(s, LAMBDA d : d.groupId = gid)

\* C17: handlers for different chats are independent.  A step of a run for
\* chat B touches no other run, leaves the records of every other chat as
\* they were (creating none), delivers only to chat B, and what it reads
\* off the store is determined by the records of chat B alone.
C17_ChatsIndependent ==
    [][\A i \in Slots :
         h'[i] # h[i] =>
           LET gid == h'[i].chat.id
               own == RecordsOf(store, gid)
           IN  /\ \A j \in Slots \ {i} : h'[j] = h[j]
               /\ \A g \in ChatIds \ {gid} : RecordsOf(store', g) = RecordsOf(store, g)
               /\ \A k \in 1..Len(h'[i].out) : h'[i].out[k].to = gid
               /\ (h'[i].reads # h[i].reads /\ ~h'[i].sfail)
                     => /\ h'[i].found = (own # <<>>)
                        /\ h'[i].users = IF own = <<>> THEN <<>> ELSE own[1].users]_vars

\* a run for one chat has written its record while a run for another chat,
\* started before it, is between its read and its write; both chats have
\* a record
C17_Witness ==
    /\ h[1].pc \in {"addInsert", "addUpdate"}
    /\ h[2].writes = 1
    /\ h[1].chat.id # h[2].chat.id
    /\ RecordsOf(store, h[1].chat.id) # <<>>
    /\ RecordsOf(store, h[2].chat.id) # <<>>

\* the update of run r was not ignored at line 135
Handled(r) == r.pc # "idle" /\ PassesGate(r.chat, r.mentioned)

\* C18: every message that passes the gate (any message of a one-to-one
\* chat, any group message with the mention token) eventually gets at least
\* one reply in its chat, on every branch, unless a sendMessage of its run
\* is rejected.
C18_EventuallyReplied ==
    \A i \in Slots :
        Handled(h[i]) ~>
            (\/ \E k \in 1..Len(h[i].out) : h[i].out[k].to = h[i].chat.id
             \/ h[i].mfail)

\* a message without mention, handled in a one-to-one chat, has been
\* answered after its store operation failed
C18_Witness ==
    \E i \in Slots :
        /\ Handled(h[i]) /\ h[i].chat.type = "private" /\ ~h[i].mentioned
        /\ h[i].sfail /\ ~h[i].mfail
        /\ Len(h[i].out) >= 1

\* C19: handling a message that is not an /add leaves the whole collection
\* as it was, whatever the judge answers; and a run of the /add path never
\* calls the judge.
C19_ReportReadOnly ==
    [][\A i \in Slots :
         h'[i] # h[i] =>
           /\ ~h'[i].isAdd => /\ store' = store
                              /\ h'[i].writes = 0
           /\ h'[i].isAdd => h'[i].jres = <<>>]_vars

\* a report has run to its end with one judge call answered and one failed,
\* next to an /add that wrote
C19_Witness ==
    \E i, j \in Slots :
        /\ h[i].pc = "done" /\ IsReportRun(h[i])
        /\ \E k \in 1..Len(h[i].jres) : h[i].jres[k].ok
        /\ \E k \in 1..Len(h[i].jres) : ~h[i].jres[k].ok
        /\ h[j].pc = "done" /\ IsAddRun(h[j]) /\ h[j].writes = 1

\* C20: groupId and groupName of a record are fixed when it is created:
\* no step removes a record or changes these two fields, whatever title
\* later messages carry; a step changes at most the users list.
C20_NameFixedAtCreation ==
    [][/\ Len(store') >= Len(store)
       /\ \A k \in 1..Len(store) :
            /\ store'[k].groupId = store[k].groupId
            /\ store'[k].groupName = store[k].groupName]_vars

\* a handle was appended by a message carrying another title than the one
\* the record was created with
C20_Witness ==
    \E i \in Slots :
        /\ h[i].pc = "done" /\ IsAddRun(h[i]) /\ h[i].found /\ h[i].writes = 1
        /\ \E k \in 1..Len(store) :
             /\ store[k].groupId = h[i].chat.id
             /\ store[k].groupName # h[i].chat.title
             /\ store[k].users = Push(h[i].users, h[i].handle)

====
